---- MODULE Spec2Model ----
(***************************************************************************)
(* Scenario MCP server (src/server.js): the job poller waitForJob, the     *)
(* four tool handlers that run submit -> poll -> resolve on top of it, and *)
(* the session table behind the /mcp route.                                *)
(*                                                                         *)
(* Node runs the program on one thread: the code between two awaits is one *)
(* atomic step, and every await (a provider call, the 2000 ms timer,       *)
(* server.connect, transport.handleRequest) is a suspension point at which *)
(* other invocations and the provider may act.  Each action below is one   *)
(* such step.  Times are in milliseconds of the wall clock Date.now().     *)
(***************************************************************************)
EXTENDS Integers, Sequences, FiniteSets, TLC

\* ------------------------------------------------------------ constants

\* server.js:58, the default of maxWaitMs
DefaultMaxWaitMs == 120000
\* server.js:356, the deadline the upscale handler passes
UpscaleMaxWaitMs == 180000
\* server.js:71, the wait between two polls
PollIntervalMs == 2000
\* server.js:150, the default of numSamples
DefaultNumSamples == 1
\* server.js:154, the range numSamples is clamped to
MinSamples == 1
MaxSamples == 4

\* -------------------------------------------------------------- bounds

\* The clock is sampled every FineTickMs (the poller alone) or every
\* CoarseTickMs (concurrent tool handlers).
FineTickMs == 1000
CoarseTickMs == 60000
PairTickMs == 120000
\* The clock does not advance while a provider call has been in flight for
\* MaxLatencyMs or more, nor while a timer is MaxLateMs or more overdue.
MaxLatencyMs == 2000
MaxLateMs == 1000
\* The longest list of output ids a job carries.
MaxAssets == 2

Procs == {"p1", "p2"}
ToolCallers == {"p1"}
JobIds == {"j1", "j2"}
AssetIds == {"a1", "a2"}
\* The deadlines waitForJob is called with when it is exercised on its own.
Deadlines == {0 - PollIntervalMs, 0, 3000, 4000}

Tools == {"txt2img", "img2img", "remove_background", "upscale"}
\* The values of the numSamples argument a txt2img call is tried with.
SampleCounts == {0 - 1, 0, 1, 3, 4, 5, 7}
HttpStatuses == {200, 404}

VARIABLES
    server,     \* "boot" | "listening" | "exited": the process
    env,        \* which of the two credentials the environment sets
    now,        \* Date.now()
    jobs,       \* the provider's jobs: status and output ids
    nextJob,    \* how many jobs the provider has created
    proc,       \* the asynchronous invocations: locals and position
    hist,       \* history of each invocation (not program state)
    sessions,   \* the Map sessions of server.js:383
    transports, \* the transports created so far
    req,        \* the /mcp requests: locals and position
    nextUuid    \* how many ids randomUUID has produced

vars == <<server, env, now, jobs, nextJob, proc, hist,
          sessions, transports, req, nextUuid>>

routerVars == <<sessions, transports, req, nextUuid>>
jobVars == <<now, jobs, nextJob, proc, hist>>

\* ------------------------------------------------------------- startup

\* server.js:20-23
CredentialsMissing(e) == ~e.apiKey \/ ~e.secretKey

StartupLazy ==
    /\ server = "boot"
    /\ server' = "listening"
    /\ UNCHANGED <<env, jobVars, routerVars>>

\* server.js:17-23 and 422: the module runs to its end, where it listens,
\* unless process.exit(1) ends it first.
Startup ==
    /\ server = "boot"
    /\ server' = IF CredentialsMissing(env) THEN "exited" ELSE "listening"
    /\ UNCHANGED <<env, jobVars, routerVars>>

\* ------------------------------------------------------------ provider

RECURSIVE SeqsUpTo(_, _)
SeqsUpTo(S, n) ==
    IF n = 0 THEN {<<>>}
    ELSE LET shorter == SeqsUpTo(S, n - 1)
         IN  shorter \cup {Append(s, x) : s \in shorter, x \in S}

NoJobEntry == [status |-> "none", assetIds |-> <<>>, termAt |-> 0 - 1]

NoJob == [jobId |-> "none", status |-> "none", metadata |-> [assetIds |-> <<>>]]

\* The body of GET /jobs/{jobId}: { job: { status, metadata: { assetIds } } }
JobPayload(j) ==
    [jobId |-> j, status |-> jobs[j].status,
     metadata |-> [assetIds |-> jobs[j].assetIds]]

\* The body of GET /assets/{assetId}: { asset: { id, url, properties } }
AssetPayload(a) ==
    [id |-> a, url |-> <<"https://x/", a>>, properties |-> <<1024, 1024>>]

Terminal(s) == s \in {"success", "failed"}

JobName(n) == IF n = 1 THEN "j1" ELSE "j2"

\* The lists of output ids a successful job may carry: no id twice.
OutputLists ==
    {s \in SeqsUpTo(AssetIds, MaxAssets) :
        \A i, k \in 1..Len(s) : s[i] = s[k] => i = k}

\* The provider alone moves a job: pending -> running -> success | failed.
\* The output ids, one of `lists`, appear with success.
ProviderStep(j, lists) ==
    /\ server = "listening"
    /\ jobs[j].status \in {"pending", "running"}
    /\ \/ /\ jobs[j].status = "pending"
          /\ jobs' = [jobs EXCEPT ![j].status = "running"]
       \/ \E ids \in lists :
              jobs' = [jobs EXCEPT ![j] =
                          [status |-> "success", assetIds |-> ids, termAt |-> now]]
       \/ jobs' = [jobs EXCEPT ![j] =
                      [status |-> "failed", assetIds |-> <<>>, termAt |-> now]]
    /\ UNCHANGED <<server, env, now, nextJob, proc, hist, routerVars>>

\* What the network gives back to one fetch(): a response with a status, or
\* no response at all (DNS, connection refused).
ProviderReplies ==
    {[net |-> TRUE, status |-> s] : s \in HttpStatuses}
        \cup {[net |-> FALSE, status |-> 0]}

NoError == [type |-> "none", status |-> 0, job |-> NoJob, ms |-> 0]

\* server.js:45-52: fetch rejects, or the response is not ok, or the parsed
\* body is returned.
ResponseOk(reply) == reply.status >= 200 /\ reply.status <= 299

ScenarioRequestError(reply) ==
    IF ~reply.net THEN [NoError EXCEPT !.type = "fetch"]
    ELSE IF ~ResponseOk(reply)
         THEN [NoError EXCEPT !.type = "api", !.status = reply.status]
         ELSE NoError

\* ---------------------------------------------------------- waitForJob

NoOutcome == [kind |-> "none", error |-> NoError, job |-> NoJob, assets |-> <<>>]

\* The arguments of a tool call and the body of its submission, as far as
\* numSamples goes.
NoArgs == [given |-> FALSE, numSamples |-> 0]
NoBody == [numSamples |-> 0]

IdleProc ==
    [kind |-> "none", pc |-> "idle", jobId |-> "none", maxWaitMs |-> 0,
     startTime |-> 0, callStart |-> 0, wakeAt |-> 0, job |-> NoJob,
     assets |-> <<>>, outcome |-> NoOutcome, body |-> NoBody]

NoHist ==
    [calls |-> 0, polls |-> 0, pollsDone |-> 0, lastRead |-> "none",
     lastLatency |-> 0, lastLate |-> 0, punctual |-> TRUE, endTime |-> 0,
     submits |-> 0, submitOk |-> FALSE, waitEnd |-> "none",
     fetches |-> 0, fetchesDone |-> 0, fetchError |-> NoError,
     job |-> NoJob, first |-> NoOutcome,
     callError |-> NoError, callsAtError |-> 0,
     args |-> NoArgs, sent |-> NoBody,
     ownJob |-> "none", waitStart |-> 0, polled |-> {}, fetched |-> {}]

Returned(job, assets) ==
    [kind |-> "returned", error |-> NoError, job |-> job, assets |-> assets]

Threw(err) ==
    [kind |-> "threw", error |-> err, job |-> NoJob, assets |-> <<>>]

\* server.js:61
LoopContinuesLe(t, startTime, maxWaitMs) == t - startTime <= maxWaitMs

LoopContinuesEarly(t, startTime, maxWaitMs) ==
    t - startTime < maxWaitMs - PollIntervalMs

LoopContinuesAbsolute(t, startTime, maxWaitMs) == t < maxWaitMs

LoopContinues(t, startTime, maxWaitMs) == t - startTime < maxWaitMs

\* server.js:74: the message names maxWaitMs
TimeoutError(maxWaitMs) == [NoError EXCEPT !.type = "timeout", !.ms = maxWaitMs]

\* server.js:67: the message carries JSON.stringify(result.job)
JobFailedError(job) == [NoError EXCEPT !.type = "job_failed", !.job = job]

\* server.js:64-71: what one poll result leads to
ClassifyNoFailed(status) ==
    IF status = "success" THEN "return" ELSE "sleep"

ClassifySuccessSleeps(status) ==
    IF status = "failed" THEN "throw" ELSE "sleep"

Classify(status) ==
    IF status = "success" THEN "return"
    ELSE IF status = "failed" THEN "throw"
    ELSE "sleep"

\* A synchronous stretch of waitForJob ends in one of three ways: it suspends
\* at an await (the invocation r is left at that await), it returns a job, or
\* it throws.
Suspended(r) == [state |-> "suspended", proc |-> r, job |-> NoJob, error |-> NoError]
ReturnedJob(r, job) == [state |-> "returned", proc |-> r, job |-> job, error |-> NoError]
Thrown(r, err) == [state |-> "threw", proc |-> r, job |-> NoJob, error |-> err]

\* server.js:61-62 and 74: the loop head, reached on entry and after each wait
LoopHead(r, t) ==
    IF LoopContinues(t, r.startTime, r.maxWaitMs)
    THEN Suspended([r EXCEPT !.pc = "poll", !.callStart = t, !.wakeAt = 0])
    ELSE Thrown(r, TimeoutError(r.maxWaitMs))

\* server.js:58-59
EnterWaitFirstJob(r, j, maxWaitMs, t) ==
    LoopHead([r EXCEPT !.jobId = JobName(1), !.maxWaitMs = maxWaitMs,
                       !.startTime = t], t)

EnterWait(r, j, maxWaitMs, t) ==
    LoopHead([r EXCEPT !.jobId = j, !.maxWaitMs = maxWaitMs, !.startTime = t], t)

\* server.js:62-71: the poll call settles with `reply`; `payload` is the job
\* the provider reports at that moment.
AfterPollChecksDeadline(r, reply, payload, t) ==
    LET err == ScenarioRequestError(reply)
        next == Classify(payload.status)
    IN  IF err.type # "none" THEN Thrown(r, err)
        ELSE IF ~LoopContinues(t, r.startTime, r.maxWaitMs)
             THEN Thrown(r, TimeoutError(r.maxWaitMs))
        ELSE IF next = "return" THEN ReturnedJob(r, payload)
        ELSE IF next = "throw" THEN Thrown(r, JobFailedError(payload))
        ELSE Suspended([r EXCEPT !.pc = "sleep", !.callStart = 0,
                                 !.wakeAt = t + PollIntervalMs])

AfterPollRetries(r, reply, payload, t) ==
    LET err == ScenarioRequestError(reply)
        next == IF err.type # "none" THEN "sleep" ELSE Classify(payload.status)
    IN  IF next = "return" THEN ReturnedJob(r, payload)
        ELSE IF next = "throw" THEN Thrown(r, JobFailedError(payload))
        ELSE Suspended([r EXCEPT !.pc = "sleep", !.callStart = 0,
                                 !.wakeAt = t + PollIntervalMs])

AfterPoll(r, reply, payload, t) ==
    LET err == ScenarioRequestError(reply)
        next == Classify(payload.status)
    IN  IF err.type # "none" THEN Thrown(r, err)
        ELSE IF next = "return" THEN ReturnedJob(r, payload)
        ELSE IF next = "throw" THEN Thrown(r, JobFailedError(payload))
        ELSE Suspended([r EXCEPT !.pc = "sleep", !.callStart = 0,
                                 !.wakeAt = t + PollIntervalMs])

\* The invocation ends: its promise settles with the outcome.  The locals
\* are dead from here on.
Finish(r, outcome) ==
    [IdleProc EXCEPT !.kind = r.kind, !.pc = "done", !.jobId = r.jobId,
                     !.maxWaitMs = r.maxWaitMs, !.startTime = r.startTime,
                     !.outcome = outcome]

\* ------------------------------------------------------- tool handlers

\* Math.min and Math.max on integers
Min(a, b) == IF a <= b THEN a ELSE b
Max(a, b) == IF a >= b THEN a ELSE b

\* The argument records a call of `kind` is tried with: numSamples is a
\* parameter of txt2img only, and may be left out.
ArgsOf(kind) ==
    IF kind = "txt2img"
    THEN {NoArgs} \cup {[given |-> TRUE, numSamples |-> n] : n \in SampleCounts}
    ELSE {NoArgs}

\* server.js:154
ClampSamplesNoUpper(n) == Max(MinSamples, n)

ClampSamples(n) == Min(MaxSamples, Max(MinSamples, n))

\* server.js:150-157: the destructuring default, then the body
SubmissionBody(kind, args) ==
    IF kind = "txt2img"
    THEN [numSamples |->
             ClampSamples(IF args.given THEN args.numSamples
                          ELSE DefaultNumSamples)]
    ELSE NoBody

\* server.js:166, 219, 316 (the default) and 356
MaxWaitOf(kind) == IF kind = "upscale" THEN UpscaleMaxWaitMs ELSE DefaultMaxWaitMs

\* server.js:172 and 222 loop over every id; 318 and 358 take assetIds[0],
\* which is undefined for an empty list.
IdsToResolve(kind, job) ==
    LET ids == job.metadata.assetIds
    IN  IF kind \in {"txt2img", "img2img"} THEN ids
        ELSE IF ids = <<>> THEN <<"undefined">> ELSE <<ids[1]>>

\* server.js:174-179, 224-227, 324-329, 364-371: width and height are copied
\* by txt2img and upscale only.
Descriptor(kind, id, asset) ==
    [id |-> id, url |-> asset.url,
     dims |-> IF kind \in {"txt2img", "upscale"} THEN asset.properties ELSE <<>>]

\* server.js:174 and 224: assets.push
PushAssetFront(assets, d) == <<d>> \o assets

PushAsset(assets, d) == Append(assets, d)

\* server.js:172-184: the head of the resolution loop, reached when
\* waitForJob has returned and after each fetched asset
ResolveHead(r, t) ==
    IF Len(r.assets) < Len(IdsToResolve(r.kind, r.job))
    THEN [r EXCEPT !.pc = "asset", !.callStart = t, !.wakeAt = 0]
    ELSE Finish(r, Returned(NoJob, r.assets))

\* server.js:173-180: one GET /assets/{assetId} settles
AfterAssetKeepsGoing(r, reply, t) ==
    LET id == IdsToResolve(r.kind, r.job)[Len(r.assets) + 1]
    IN  ResolveHead([r EXCEPT !.assets =
            IF ScenarioRequestError(reply).type # "none" THEN @
            ELSE PushAsset(@, Descriptor(r.kind, id, AssetPayload(id)))] , t)

AfterAsset(r, reply, t) ==
    LET err == ScenarioRequestError(reply)
        id == IdsToResolve(r.kind, r.job)[Len(r.assets) + 1]
    IN  IF err.type # "none" THEN Finish(r, Threw(err))
        ELSE ResolveHead([r EXCEPT !.assets =
                 PushAsset(@, Descriptor(r.kind, id, AssetPayload(id)))], t)

\* What the caller of waitForJob does with the way a stretch of it ended:
\* nothing while it is suspended; a direct caller gets the job or the error;
\* a tool handler (server.js:166-169, 219-222, 316-319, 356-359) lets the
\* error propagate, or goes on to resolve the job's output ids.
AfterWaitResolvesAnyway(r, res, t) ==
    IF res.state = "suspended" THEN res.proc
    ELSE IF r.kind = "waitForJob"
         THEN Finish(res.proc, IF res.state = "returned"
                               THEN Returned(res.job, <<>>) ELSE Threw(res.error))
    ELSE ResolveHead([res.proc EXCEPT !.job = JobPayload(r.jobId),
                                      !.callStart = 0], t)

AfterWait(r, res, t) ==
    IF res.state = "suspended" THEN res.proc
    ELSE IF r.kind = "waitForJob"
         THEN Finish(res.proc, IF res.state = "returned"
                               THEN Returned(res.job, <<>>) ELSE Threw(res.error))
    ELSE IF res.state = "threw" THEN Finish(res.proc, Threw(res.error))
    ELSE ResolveHead([res.proc EXCEPT !.job = res.job, !.callStart = 0], t)

\* server.js:163-166 (219, 315-316, 355-356): the submission settles; j is
\* the job the provider created for it
AfterSubmit(r, reply, j, t) ==
    LET err == ScenarioRequestError(reply)
    IN  IF err.type # "none" THEN Finish(r, Threw(err))
        ELSE AfterWait(r, EnterWait(r, j, MaxWaitOf(r.kind), t), t)

\* ------------------------------------------------------------- history

\* The id the pending GET /assets/{assetId} names.
FetchedId(r) == IdsToResolve(r.kind, r.job)[Len(r.assets) + 1]

WaitEnd(res) ==
    IF res.state = "returned" THEN "success"
    ELSE IF res.state = "threw" THEN res.error.type
    ELSE "none"

\* One step left the invocation at `new`: a step issues at most one provider
\* call, the one `new` is waiting for.  lastLatency and lastLate describe the
\* loop iteration that has just run (its poll, its wait) and start afresh
\* with the next poll.
Record(h, new, t) ==
    [h EXCEPT !.polls = IF new.pc = "poll" THEN @ + 1 ELSE @,
              !.lastLatency = IF new.pc = "poll" THEN 0 ELSE @,
              !.lastLate = IF new.pc = "poll" THEN 0 ELSE @,
              !.fetches = IF new.pc = "asset" THEN @ + 1 ELSE @,
              !.polled = IF new.pc = "poll" THEN @ \cup {new.jobId} ELSE @,
              !.fetched = IF new.pc = "asset" THEN @ \cup {FetchedId(new)} ELSE @,
              !.endTime = IF new.pc = "done" THEN t ELSE @]

\* The provider calls the invocation has issued so far.
CallsIssued(h) == h.submits + h.polls + h.fetches

\* A provider call of the invocation has settled with `err`.
NoteError(h, err) ==
    IF err.type = "none" THEN h
    ELSE [h EXCEPT !.callError = err, !.callsAtError = CallsIssued(h)]

\* ------------------------------------------------------------- actions

InCall(r) == r.pc \in {"submit", "poll", "asset"}

\* A tool is invoked: server.js:150-163 (210-218, 312-315, 349-355) up to
\* the await of the submission.
Invoke(p, kind) ==
    /\ server = "listening"
    /\ proc[p].pc = "idle"
    /\ \E args \in ArgsOf(kind) :
          LET body == SubmissionBody(kind, args)
          IN  /\ proc' = [proc EXCEPT ![p] =
                             [IdleProc EXCEPT !.kind = kind, !.pc = "submit",
                                              !.callStart = now, !.body = body]]
              /\ hist' = [hist EXCEPT ![p].submits = @ + 1,
                                      ![p].args = args,
                                      ![p].sent = body]
    /\ UNCHANGED <<server, env, now, jobs, nextJob, routerVars>>

SubmitReturn(p, reply) ==
    /\ server = "listening"
    /\ proc[p].pc = "submit"
    /\ nextJob < Cardinality(JobIds)
    /\ LET ok == ScenarioRequestError(reply).type = "none"
           j == JobName(nextJob + 1)
           res == EnterWait(proc[p], j, MaxWaitOf(proc[p].kind), now)
           new == AfterSubmit(proc[p], reply, j, now)
       IN  /\ proc' = [proc EXCEPT ![p] = new]
           /\ jobs' = IF ok THEN [jobs EXCEPT ![j].status = "pending"] ELSE jobs
           /\ nextJob' = IF ok THEN nextJob + 1 ELSE nextJob
           /\ hist' = [hist EXCEPT ![p] =
                          Record(NoteError([@ EXCEPT
                                               !.submitOk = ok,
                                               !.calls = IF ok THEN 1 ELSE @,
                                               !.ownJob = IF ok THEN j ELSE @,
                                               !.waitStart = IF ok THEN now ELSE @,
                                               !.waitEnd = IF ok THEN WaitEnd(res)
                                                           ELSE @],
                                           ScenarioRequestError(reply)),
                                 new, now)]
    /\ UNCHANGED <<server, env, now, routerVars>>

\* waitForJob is called on its own with deadline d, on a job a submission
\* has returned.
CallWaitForJob(p, j, d) ==
    /\ server = "listening"
    /\ proc[p].pc = "idle"
    /\ jobs[j].status # "none"
    /\ LET r == [IdleProc EXCEPT !.kind = "waitForJob"]
           res == EnterWait(r, j, d, now)
           new == AfterWait(r, res, now)
       IN  /\ proc' = [proc EXCEPT ![p] = new]
           /\ hist' = [hist EXCEPT ![p] =
                          Record([@ EXCEPT !.calls = 1, !.waitEnd = WaitEnd(res),
                                           !.ownJob = j, !.waitStart = now],
                                 new, now)]
    /\ UNCHANGED <<server, env, now, jobs, nextJob, routerVars>>

\* waitForJob is called once more on a job the first call has seen in a
\* terminal state.
CallAgain(p) ==
    /\ server = "listening"
    /\ proc[p].pc = "done"
    /\ proc[p].kind = "waitForJob"
    /\ hist[p].calls = 1
    /\ hist[p].waitEnd \in {"success", "job_failed"}
    /\ LET r == [IdleProc EXCEPT !.kind = "waitForJob"]
           res == EnterWait(r, proc[p].jobId, proc[p].maxWaitMs, now)
           new == AfterWait(r, res, now)
       IN  /\ proc' = [proc EXCEPT ![p] = new]
           /\ hist' = [hist EXCEPT ![p] =
                          Record([NoHist EXCEPT !.calls = 2,
                                                !.ownJob = proc[p].jobId,
                                                !.waitStart = now,
                                                !.first = proc[p].outcome,
                                                !.waitEnd = WaitEnd(res)],
                                 new, now)]
    /\ UNCHANGED <<server, env, now, jobs, nextJob, routerVars>>

\* server.js:62: the GET /jobs/{jobId} settles
PollReturn(p, reply) ==
    /\ server = "listening"
    /\ proc[p].pc = "poll"
    /\ LET r == proc[p]
           res == AfterPoll(r, reply, JobPayload(r.jobId), now)
           new == AfterWait(r, res, now)
       IN  /\ proc' = [proc EXCEPT ![p] = new]
           /\ hist' = [hist EXCEPT ![p] =
                          Record(NoteError([@ EXCEPT
                                     !.pollsDone = @ + 1,
                                     !.lastRead =
                                         IF ScenarioRequestError(reply).type = "none"
                                         THEN jobs[r.jobId].status ELSE "error",
                                     !.lastLatency = now - r.callStart,
                                     !.job = IF res.state = "returned"
                                             THEN res.job ELSE @,
                                     !.waitEnd = WaitEnd(res)],
                                           ScenarioRequestError(reply)),
                                 new, now)]
    /\ UNCHANGED <<server, env, now, jobs, nextJob, routerVars>>

\* server.js:71: the timer fires, at its due time or later
WakeCancels(p) ==
    /\ server = "listening"
    /\ proc[p].pc = "sleep"
    /\ now >= proc[p].wakeAt
    /\ LET r == proc[p]
           res == LoopHead(r, now)
           new == AfterWait(r, res, now)
       IN  /\ proc' = [proc EXCEPT ![p] = new]
           /\ hist' = [hist EXCEPT ![p] =
                          Record([@ EXCEPT !.lastLate = now - r.wakeAt,
                                           !.punctual = @ /\ now = r.wakeAt,
                                           !.waitEnd = WaitEnd(res)],
                                 new, now)]
           /\ jobs' = IF res.state = "threw" /\ ~Terminal(jobs[r.jobId].status)
                      THEN [jobs EXCEPT ![r.jobId].status = "failed",
                                        ![r.jobId].termAt = now]
                      ELSE jobs
    /\ UNCHANGED <<server, env, now, nextJob, routerVars>>

Wake(p) ==
    /\ server = "listening"
    /\ proc[p].pc = "sleep"
    /\ now >= proc[p].wakeAt
    /\ LET r == proc[p]
           res == LoopHead(r, now)
           new == AfterWait(r, res, now)
       IN  /\ proc' = [proc EXCEPT ![p] = new]
           /\ hist' = [hist EXCEPT ![p] =
                          Record([@ EXCEPT !.lastLate = now - r.wakeAt,
                                           !.punctual = @ /\ now = r.wakeAt,
                                           !.waitEnd = WaitEnd(res)],
                                 new, now)]
    /\ UNCHANGED <<server, env, now, jobs, nextJob, routerVars>>

\* The provider answers 2xx for the assets it holds only: the path
\* /assets/undefined of server.js:319 and 359 names none.
AssetExists(id) == id \in AssetIds

\* server.js:173, 223, 319, 359: the GET /assets/{assetId} settles
AssetReturn(p, reply) ==
    /\ server = "listening"
    /\ proc[p].pc = "asset"
    /\ ScenarioRequestError(reply).type = "none" => AssetExists(FetchedId(proc[p]))
    /\ LET new == AfterAsset(proc[p], reply, now)
       IN  /\ proc' = [proc EXCEPT ![p] = new]
           /\ hist' = [hist EXCEPT ![p] =
                          Record(NoteError([@ EXCEPT
                                               !.fetchesDone = @ + 1,
                                               !.fetchError =
                                                   ScenarioRequestError(reply)],
                                           ScenarioRequestError(reply)),
                                 new, now)]
    /\ UNCHANGED <<server, env, now, jobs, nextJob, routerVars>>

\* The clock advances by dt while somebody waits for a call or a timer.
TickBy(dt) ==
    /\ server = "listening"
    /\ \E p \in Procs : InCall(proc[p]) \/ proc[p].pc = "sleep"
    /\ \A p \in Procs :
          /\ InCall(proc[p]) => now - proc[p].callStart < MaxLatencyMs
          /\ proc[p].pc = "sleep" => now - proc[p].wakeAt < MaxLateMs
    /\ now' = now + dt
    /\ UNCHANGED <<server, env, jobs, nextJob, proc, hist, routerVars>>

TickFine == TickBy(FineTickMs)

TickCoarse == TickBy(CoarseTickMs)

TickPair == TickBy(PairTickMs)

\* ------------------------------------------------------ session router

ReqIds == {"r1", "r2", "r3"}
\* The values randomUUID returns, in the order it returns them.
UuidName == <<"u1", "u2", "u3">>

NoTransport == [state |-> "none", sid |-> "none"]

IdleReq ==
    [pc |-> "idle", header |-> "absent", transport |-> "none",
     sessionId |-> "absent", response |-> "none"]

\* Map.get and Map.set on the session table
MapGet(m, id) == IF id \in DOMAIN m THEN m[id] ELSE "none"

MapSetOnly(m, id, t) == [x \in {id} |-> t]

MapSet(m, id, t) ==
    [x \in DOMAIN m \cup {id} |-> IF x = id THEN t ELSE m[x]]

\* server.js:394
LookupNever(m, id) == "none"

Lookup(m, id) == MapGet(m, id)

\* server.js:399: randomUUID never returns the same value twice
SessionIdGeneratorFixed(n) == UuidName[1]

SessionIdGenerator(n) == UuidName[n + 1]

\* server.js:400-403: the closure of request c, called with the id the
\* transport has generated
RegisterUnderHeader(m, c, id) ==
    MapSet(m, IF req[c].header = "absent" THEN id ELSE req[c].header,
           req[c].transport)

Register(m, c, id) == MapSet(m, id, req[c].transport)

\* server.js:391-408: a request arrives; the handler runs to its first
\* await, which is server.connect for a new transport and handleRequest for
\* a registered one.  A transport is named after the request that created it.
Receive(r, header) ==
    /\ server = "listening"
    /\ req[r].pc = "idle"
    /\ LET found == Lookup(sessions, header)
       IN  IF found = "none"
           THEN /\ transports' = [transports EXCEPT ![r].state = "created"]
                /\ req' = [req EXCEPT ![r] =
                              [@ EXCEPT !.pc = "connect", !.header = header,
                                        !.sessionId = header, !.transport = r]]
           ELSE /\ transports' = transports
                /\ req' = [req EXCEPT ![r] =
                              [@ EXCEPT !.pc = "handle", !.header = header,
                                        !.sessionId = header, !.transport = found]]
    /\ UNCHANGED <<server, env, jobVars, sessions, nextUuid>>

\* server.js:408-412: server.connect settles and handleRequest is called
Connected(r) ==
    /\ server = "listening"
    /\ req[r].pc = "connect"
    /\ transports' = [transports EXCEPT ![req[r].transport].state = "connected"]
    /\ req' = [req EXCEPT ![r].pc = "handle"]
    /\ UNCHANGED <<server, env, jobVars, sessions, nextUuid>>

\* server.js:399-404: while it handles request r, the transport decides its
\* session id and calls onsessioninitialized, once in its life.  The callback
\* is the closure of the request that created the transport.
SessionInitialized(r) ==
    /\ server = "listening"
    /\ req[r].pc = "handle"
    /\ nextUuid < Len(UuidName)
    /\ LET t == req[r].transport
           id == SessionIdGenerator(nextUuid)
       IN  /\ transports[t].sid = "none"
           /\ transports' = [transports EXCEPT ![t].sid = id]
           /\ sessions' = Register(sessions, t, id)
           /\ req' = [req EXCEPT ![t].sessionId = id]
    /\ nextUuid' = nextUuid + 1
    /\ UNCHANGED <<server, env, jobVars>>

\* server.js:411-418: handleRequest settles, or throws and the catch answers
\* 500
HandleReturn(r, throws) ==
    /\ server = "listening"
    /\ req[r].pc = "handle"
    /\ req' = [req EXCEPT ![r].pc = "done",
                          ![r].response = IF throws THEN "error500" ELSE "handled"]
    /\ UNCHANGED <<server, env, jobVars, sessions, transports, nextUuid>>

\* server.js:386-388: GET /health is answered at once
Health(r) ==
    /\ server = "listening"
    /\ req[r].pc = "idle"
    /\ req' = [req EXCEPT ![r].pc = "health", ![r].response = "healthy"]
    /\ UNCHANGED <<server, env, jobVars, sessions, transports, nextUuid>>

\* ------------------------------------------------------ specifications

InitCommon ==
    /\ server = "boot"
    /\ env \in [apiKey : BOOLEAN, secretKey : BOOLEAN]
    /\ now = 0
    /\ proc = [p \in Procs |-> IdleProc]
    /\ hist = [p \in Procs |-> NoHist]
    /\ sessions = << >>
    /\ transports = [r \in ReqIds |-> NoTransport]
    /\ req = [r \in ReqIds |-> IdleReq]
    /\ nextUuid = 0

\* The tool handlers, invoked concurrently.
Init ==
    /\ InitCommon
    /\ jobs = [j \in JobIds |-> NoJobEntry]
    /\ nextJob = 0

Next ==
    \/ Startup
    \/ \E p \in ToolCallers, kind \in Tools : Invoke(p, kind)
    \/ \E p \in ToolCallers, reply \in ProviderReplies : SubmitReturn(p, reply)
    \/ \E p \in ToolCallers, reply \in ProviderReplies : PollReturn(p, reply)
    \/ \E p \in ToolCallers : Wake(p)
    \/ \E p \in ToolCallers, reply \in ProviderReplies : AssetReturn(p, reply)
    \/ \E j \in JobIds : ProviderStep(j, OutputLists)
    \/ TickCoarse

Spec == Init /\ [][Next]_vars

\* waitForJob on its own: one caller, one job, every deadline of Deadlines,
\* and a second call once the first has seen the job in a terminal state.
InitWait ==
    /\ InitCommon
    /\ jobs = [j \in JobIds |->
                  IF j = "j1" THEN [NoJobEntry EXCEPT !.status = "pending"]
                  ELSE NoJobEntry]
    /\ nextJob = 1

NextWait ==
    \/ Startup
    \/ \E d \in Deadlines : CallWaitForJob("p1", "j1", d)
    \/ CallAgain("p1")
    \/ \E reply \in ProviderReplies : PollReturn("p1", reply)
    \/ Wake("p1")
    \/ ProviderStep("j1", {<<"a1">>})
    \/ TickFine

SpecWait == InitWait /\ [][NextWait]_vars

\* The same, where every provider call is answered in the end, the clock
\* goes on and a timer that is due fires.
SpecWaitFair ==
    /\ InitWait
    /\ [][NextWait]_vars
    /\ WF_vars(\E reply \in ProviderReplies : PollReturn("p1", reply))
    /\ WF_vars(Wake("p1"))
    /\ WF_vars(TickFine)

\* The scenario of a job that stays `running` forever, waited for with the
\* default deadline of 120000 ms.
InitDefaultWait ==
    /\ InitCommon
    /\ jobs = [j \in JobIds |->
                  IF j = "j1" THEN [NoJobEntry EXCEPT !.status = "running"]
                  ELSE NoJobEntry]
    /\ nextJob = 1

NextDefaultWait ==
    \/ Startup
    \/ CallWaitForJob("p1", "j1", DefaultMaxWaitMs)
    \/ \E reply \in ProviderReplies : PollReturn("p1", reply)
    \/ Wake("p1")
    \/ TickFine

SpecDefaultWait == InitDefaultWait /\ [][NextDefaultWait]_vars

\* The /mcp route: requests interleaved at their awaits.
InitRouter ==
    /\ InitCommon
    /\ jobs = [j \in JobIds |-> NoJobEntry]
    /\ nextJob = 0

NextRouter ==
    \/ Startup
    \/ \E r \in ReqIds, header \in {"absent", "unknown"} \cup DOMAIN sessions :
           Receive(r, header)
    \/ \E r \in ReqIds : Connected(r)
    \/ \E r \in ReqIds : SessionInitialized(r)
    \/ \E r \in ReqIds, throws \in BOOLEAN : HandleReturn(r, throws)

SpecRouter == InitRouter /\ [][NextRouter]_vars

\* The process from its start: the environment, then one request on /mcp,
\* one on /health and one tool call.
NextBoot ==
    \/ Startup
    \/ Health("r2")
    \/ \E header \in {"absent"} \cup DOMAIN sessions : Receive("r1", header)
    \/ Connected("r1")
    \/ SessionInitialized("r1")
    \/ \E throws \in BOOLEAN : HandleReturn("r1", throws)
    \/ \E kind \in {"remove_background", "upscale"} : Invoke("p1", kind)
    \/ \E reply \in ProviderReplies : SubmitReturn("p1", reply)
    \/ \E reply \in ProviderReplies : PollReturn("p1", reply)
    \/ Wake("p1")
    \/ \E reply \in ProviderReplies : AssetReturn("p1", reply)
    \/ ProviderStep("j1", {<<"a1">>})
    \/ TickCoarse

SpecBoot == Init /\ [][NextBoot]_vars

\* Two tool calls in flight together, each with a job of its own; the
\* provider answers every call, with 200 or with 404.
HttpReplies == {reply \in ProviderReplies : reply.net}

NextPair ==
    \/ Startup
    \/ \E p \in Procs, kind \in {"img2img", "upscale"} : Invoke(p, kind)
    \/ \E p \in Procs, reply \in HttpReplies : SubmitReturn(p, reply)
    \/ \E p \in Procs, reply \in HttpReplies : PollReturn(p, reply)
    \/ \E p \in Procs : Wake(p)
    \/ \E p \in Procs, reply \in HttpReplies : AssetReturn(p, reply)
    \/ ProviderStep("j1", {<<"a1">>})
    \/ ProviderStep("j2", {<<"a2", "a1">>})
    \/ TickPair

SpecPair == Init /\ [][NextPair]_vars

\* -------------------------------------------------------------- claims

Done(p) == proc[p].pc = "done"
Elapsed(p) == hist[p].endTime - proc[p].startTime
CallFailed(p) == proc[p].outcome.error.type \in {"api", "fetch"}
TimedOut(p) == Done(p) /\ proc[p].outcome.error.type = "timeout"

\* C1, as stated: whenever the job reached `success` on the provider's side
\* before the deadline of the call elapsed (no poll call failed, every timer
\* fired on time), waitForJob has returned that job.
C1_SuccessBeforeDeadlineReturned ==
    \A p \in Procs :
        ( /\ Done(p) /\ proc[p].kind = "waitForJob" /\ hist[p].calls = 1
          /\ ~CallFailed(p) /\ hist[p].punctual
          /\ jobs[proc[p].jobId].status = "success"
          /\ jobs[proc[p].jobId].termAt - proc[p].startTime < proc[p].maxWaitMs )
        => proc[p].outcome = Returned(JobPayload(proc[p].jobId), <<>>)

\* C1, amended: whenever a poll of waitForJob has read `success`, the call is
\* over, it has returned exactly the job the provider holds, and no poll has
\* been started after that one.  (A job that succeeds after the last poll
\* before the deadline has been answered is not seen: see the counterexample.)
C1_PollReadsSuccess ==
    \A p \in Procs :
        hist[p].lastRead = "success"
        => /\ ~(proc[p].pc \in {"poll", "sleep"})
           /\ hist[p].polls = hist[p].pollsDone
           /\ hist[p].job = JobPayload(proc[p].jobId)
           /\ proc[p].kind = "waitForJob"
              => /\ Done(p)
                 /\ proc[p].outcome = Returned(JobPayload(proc[p].jobId), <<>>)

\* A call that returned the job after waiting at least once.
C1_Witness ==
    \E p \in Procs :
        /\ Done(p) /\ proc[p].kind = "waitForJob"
        /\ hist[p].lastRead = "success"
        /\ hist[p].polls >= 2
        /\ proc[p].outcome.job.status = "success"

\* C2: whenever a poll of waitForJob has read `failed`, the call is over with
\* the job-failed error carrying the job as the provider reported it, whatever
\* is left of the deadline; nothing was started after that poll (no wait, no
\* poll) and no timeout is reported instead.
C2_FailedRaisesAtOnce ==
    \A p \in Procs :
        hist[p].lastRead = "failed"
        => /\ Done(p)
           /\ hist[p].polls = hist[p].pollsDone
           /\ proc[p].outcome =
                  Threw(JobFailedError(JobPayload(proc[p].jobId)))
           /\ proc[p].outcome.error.job.status = "failed"

\* The failure is observed with more than a polling interval of budget left.
C2_Witness ==
    \E p \in Procs :
        /\ Done(p)
        /\ hist[p].lastRead = "failed"
        /\ proc[p].outcome.error.type = "job_failed"
        /\ Elapsed(p) + PollIntervalMs < proc[p].maxWaitMs

\* C3, as stated: whenever the job stayed pending/running on the provider's
\* side for maxWaitMs after the call started (no poll call failed, every
\* timer fired on time), the call has ended with the timeout error, which
\* reports at least maxWaitMs.
C3_NonTerminalForDeadlineTimesOut ==
    \A p \in Procs :
        ( /\ Done(p) /\ proc[p].kind = "waitForJob" /\ hist[p].calls = 1
          /\ ~CallFailed(p) /\ hist[p].punctual
          /\ \/ ~Terminal(jobs[proc[p].jobId].status)
             \/ jobs[proc[p].jobId].termAt - proc[p].startTime >= proc[p].maxWaitMs )
        => /\ proc[p].outcome.error.type = "timeout"
           /\ proc[p].outcome.error.ms >= proc[p].maxWaitMs

\* C3, amended: a call of waitForJob ends with the timeout error exactly when
\* every poll it made (all started before the deadline) read pending or
\* running and none failed; the error is then raised maxWaitMs or more after
\* the call started and its message reports maxWaitMs.
C3_TimeoutWhenEveryPollNonTerminal ==
    \A p \in Procs :
        (Done(p) /\ hist[p].calls >= 1 /\ hist[p].submitOk = (proc[p].kind # "waitForJob"))
        => /\ (hist[p].lastRead \in {"none", "pending", "running"})
              <=> (proc[p].outcome.error.type = "timeout")
           /\ proc[p].outcome.error.type = "timeout"
              => /\ proc[p].outcome.error.ms >= proc[p].maxWaitMs
                 /\ Elapsed(p) >= proc[p].maxWaitMs

\* A timeout after at least one poll that read a non-terminal status.
C3_Witness ==
    \E p \in Procs :
        /\ TimedOut(p)
        /\ hist[p].lastRead \in {"pending", "running"}
        /\ proc[p].maxWaitMs > 0
        /\ Elapsed(p) > proc[p].maxWaitMs

\* C4, as stated: with the timers on time, the timeout of the 120000 ms
\* deadline is raised no later than one polling interval after it, whatever
\* the latency of the poll calls.
C4_TimeoutWithinOneInterval ==
    \A p \in Procs :
        (TimedOut(p) /\ hist[p].punctual)
        => Elapsed(p) <= proc[p].maxWaitMs + PollIntervalMs

\* C4, amended: the timeout is raised at the first loop check at or after the
\* deadline: never before maxWaitMs, and less than one polling interval plus
\* the latency of the last poll call plus the lateness of the last timer after
\* it.
C4_TimeoutWindow ==
    \A p \in Procs :
        (TimedOut(p) /\ hist[p].polls > 0)
        => /\ Elapsed(p) >= proc[p].maxWaitMs
           /\ Elapsed(p) < proc[p].maxWaitMs + PollIntervalMs
                               + hist[p].lastLatency + hist[p].lastLate

\* A timeout of the default deadline whose last poll took time to answer.
C4_Witness ==
    \E p \in Procs :
        /\ TimedOut(p)
        /\ proc[p].maxWaitMs = DefaultMaxWaitMs
        /\ hist[p].punctual
        /\ hist[p].lastLatency > 0
        /\ Elapsed(p) < proc[p].maxWaitMs + PollIntervalMs

\* C10, as stated: a later call on a job already seen in a terminal state
\* sends no status query.
C10_NoRequery ==
    \A p \in Procs : hist[p].calls = 2 => hist[p].polls = 0

\* C10, amended: waitForJob keeps no cache.  A later call on a job already
\* seen in a terminal state sends exactly one new status query and, unless
\* that query fails, ends as the first call did, without waiting: it returns
\* the same terminal job or raises the same job-failed error.
C10_RequeryOnce ==
    \A p \in Procs :
        hist[p].calls = 2
        => /\ hist[p].polls = 1
           /\ proc[p].pc \in {"poll", "done"}
           /\ Done(p) => (proc[p].outcome = hist[p].first \/ CallFailed(p))

\* A second call that returned the job the first call had returned.
C10_Witness ==
    \E p \in Procs :
        /\ hist[p].calls = 2 /\ Done(p)
        /\ hist[p].pollsDone = 1
        /\ proc[p].outcome = hist[p].first
        /\ proc[p].outcome.job.status = "success"

SidOf(t) == transports[t].sid
Arrived(r) == req[r].pc # "idle"
InFlight(r) == req[r].pc \in {"connect", "handle"}

\* C5: two requests that arrive without a session id each get a transport of
\* their own; the ids the two transports generate differ; and once both
\* callbacks have fired, the table maps each of the two ids to the transport
\* that generated it, and every id of the table to the one transport that
\* generated that id.
C5_DistinctSessions ==
    \A r1, r2 \in ReqIds :
        (r1 # r2 /\ Arrived(r1) /\ Arrived(r2)
           /\ req[r1].header = "absent" /\ req[r2].header = "absent")
        => /\ req[r1].transport = r1 /\ req[r2].transport = r2
           /\ transports[r1].state # "none" /\ transports[r2].state # "none"
           /\ (SidOf(r1) # "none" /\ SidOf(r2) # "none")
              => /\ SidOf(r1) # SidOf(r2)
                 /\ MapGet(sessions, SidOf(r1)) = r1
                 /\ MapGet(sessions, SidOf(r2)) = r2
                 /\ \A id \in DOMAIN sessions :
                        {t \in ReqIds : SidOf(t) = id} = {sessions[id]}

\* Two requests without a session id in flight together, both initialized.
C5_Witness ==
    \E r1, r2 \in ReqIds :
        /\ r1 # r2
        /\ req[r1].header = "absent" /\ req[r2].header = "absent"
        /\ InFlight(r1) /\ InFlight(r2)
        /\ SidOf(r1) # "none" /\ SidOf(r2) # "none"
        /\ Cardinality(DOMAIN sessions) = 2

\* C6: a request whose session id is in the table is handled by the transport
\* registered under that id and creates none; a request with no id or an id
\* that is not in the table is handled by a transport it creates, and that
\* transport is in the table under no id but the one it generated itself,
\* which is not the id the request supplied.
C6_Routing ==
    \A r \in ReqIds :
        Arrived(r)
        => IF req[r].header \in DOMAIN sessions
           THEN /\ req[r].transport = sessions[req[r].header]
                /\ req[r].transport # r
                /\ transports[r].state = "none"
           ELSE /\ req[r].transport = r
                /\ transports[r].state # "none"
                /\ \A id \in DOMAIN sessions :
                       sessions[id] = r => (id = SidOf(r) /\ id # req[r].header)

\* A request routed to a registered transport, and a request with an unknown
\* id whose new transport is registered under the id it generated.
C6_Witness ==
    \E r1, r2 \in ReqIds :
        /\ Arrived(r1) /\ req[r1].header \in DOMAIN sessions
        /\ req[r1].transport # r1
        /\ req[r2].header = "unknown"
        /\ SidOf(r2) # "none"
        /\ MapGet(sessions, SidOf(r2)) = r2

IdsOf(assets) == [i \in 1..Len(assets) |-> assets[i].id]
OutputIds(p) == hist[p].job.metadata.assetIds
Lists(p) == proc[p].kind \in {"txt2img", "img2img"}
ReturnedOk(p) == Done(p) /\ proc[p].outcome.kind = "returned"

\* C7: while a generation handler resolves the output ids of its job, the
\* descriptors it holds are those of the first ids, in the order of the ids;
\* the list it returns has the ids of the job, in their order.
C7_OrderPreserved ==
    \A p \in Procs :
        Lists(p)
        => /\ proc[p].pc = "asset"
              => IdsOf(proc[p].assets)
                     = SubSeq(OutputIds(p), 1, Len(proc[p].assets))
           /\ ReturnedOk(p) => IdsOf(proc[p].outcome.assets) = OutputIds(p)

\* A generation handler returned two descriptors of different ids, after
\* fetches that took time.
C7_Witness ==
    \E p \in Procs :
        /\ Lists(p) /\ ReturnedOk(p)
        /\ IdsOf(proc[p].outcome.assets) = <<"a2", "a1">>
        /\ hist[p].endTime > proc[p].startTime

\* C8: once a fetch of an output id has failed, the handler has ended with
\* that error, its caller got no descriptor, and no fetch was started after
\* the failed one.
C8_NoPartialResult ==
    \A p \in Procs :
        hist[p].fetchError.type # "none"
        => /\ Done(p)
           /\ proc[p].outcome = Threw(hist[p].fetchError)
           /\ proc[p].outcome.assets = <<>>
           /\ hist[p].fetches = hist[p].fetchesDone
           /\ hist[p].fetchesDone <= Len(OutputIds(p)) \/ ~Lists(p)

\* The second of two fetches failed: the first descriptor is not returned.
C8_Witness ==
    \E p \in Procs :
        /\ Lists(p) /\ Done(p)
        /\ hist[p].fetchError.type # "none"
        /\ hist[p].fetchesDone = 2

\* The first of two fetches failed: the second id is never fetched.
C8_WitnessFirst ==
    \E p \in Procs :
        /\ Lists(p) /\ Done(p)
        /\ hist[p].fetchError.type # "none"
        /\ hist[p].fetches = 1 /\ Len(OutputIds(p)) = 2

\* C9: in a tool invocation a poll is started only after the one submission
\* has been answered successfully; an asset is fetched only after waitForJob
\* has returned the job, with every poll answered; after a failed submission
\* there is no poll and no fetch, and after a failed or timed out waitForJob
\* there is no fetch.
C9_StageOrder ==
    \A p \in Procs :
        proc[p].kind \in Tools
        => /\ hist[p].submits = 1
           /\ proc[p].pc = "submit" => hist[p].polls = 0 /\ hist[p].fetches = 0
           /\ hist[p].polls > 0 => hist[p].submitOk
           /\ hist[p].fetches > 0
              => /\ hist[p].polls > 0
                 /\ hist[p].polls = hist[p].pollsDone
                 /\ hist[p].waitEnd = "success"
                 /\ hist[p].lastRead = "success"
           /\ (Done(p) /\ ~hist[p].submitOk)
              => hist[p].polls = 0 /\ hist[p].fetches = 0
           /\ hist[p].waitEnd \in {"job_failed", "timeout", "api", "fetch"}
              => hist[p].fetches = 0 /\ Done(p)

\* An upscale that polled more than once and then fetched its asset.
C9_Witness ==
    \E p \in Procs :
        /\ proc[p].kind = "upscale" /\ ReturnedOk(p)
        /\ hist[p].polls >= 2
        /\ hist[p].fetchesDone = 1

\* A timed out waitForJob inside a tool: nothing is fetched.
C9_WitnessTimeout ==
    \E p \in Procs :
        /\ proc[p].kind \in Tools /\ TimedOut(p)
        /\ hist[p].fetches = 0

\* C11: once a provider call of an invocation (its submission, a poll, an
\* asset fetch) has failed, with a response that is not 2xx or with no
\* response, the invocation is over with exactly that error, every call it
\* issued has settled, and it has issued no call after the failed one: the
\* failed call is not repeated and a failed poll is not followed by a poll.
C11_NoRetry ==
    \A p \in Procs :
        hist[p].callError.type # "none"
        => /\ Done(p)
           /\ proc[p].outcome = Threw(hist[p].callError)
           /\ hist[p].callError.type \in {"api", "fetch"}
           /\ CallsIssued(hist[p]) = hist[p].callsAtError
           /\ hist[p].pollsDone = hist[p].polls
           /\ hist[p].fetchesDone = hist[p].fetches
           /\ hist[p].lastRead = "error" => hist[p].waitEnd \in {"api", "fetch"}

\* A tool whose second poll was answered 404: the call ends with that error.
C11_Witness ==
    \E p \in Procs :
        /\ proc[p].kind \in Tools /\ Done(p)
        /\ hist[p].lastRead = "error"
        /\ hist[p].polls = 2
        /\ proc[p].outcome.error.type = "api"
        /\ proc[p].outcome.error.status = 404

\* C12: a tool invocation that returns has one descriptor for each output id
\* of its terminal job, in the order of the ids, whichever tool it is and
\* however many ids the job carries.
C12_CompleteResult ==
    \A p \in Procs :
        (proc[p].kind \in Tools /\ ReturnedOk(p))
        => /\ Len(proc[p].outcome.assets) = Len(OutputIds(p))
           /\ IdsOf(proc[p].outcome.assets) = OutputIds(p)

\* C13: the body of every txt2img submission, as it is sent, has numSamples
\* in 1..4: the argument itself when that lies in 1..4, 4 for a larger one
\* (7 becomes 4), 1 for a smaller one (0 becomes 1); the value is in the body
\* from the moment the submission call is pending.
C13_ClampedBeforeSubmit ==
    \A p \in Procs :
        (proc[p].kind = "txt2img" /\ hist[p].submits >= 1 /\ hist[p].args.given)
        => LET n == hist[p].args.numSamples
               sent == hist[p].sent.numSamples
           IN  /\ sent >= 1 /\ sent <= 4
               /\ (n >= 1 /\ n <= 4) => sent = n
               /\ n > 4 => sent = 4
               /\ n < 1 => sent = 1
               /\ n = 7 => sent = 4
               /\ n = 0 => sent = 1
               /\ proc[p].pc = "submit" => proc[p].body.numSamples = sent

\* A txt2img called with numSamples 7 whose submission, carrying 4, is
\* pending.
C13_Witness ==
    \E p \in Procs :
        /\ proc[p].kind = "txt2img" /\ proc[p].pc = "submit"
        /\ hist[p].args.given /\ hist[p].args.numSamples = 7
        /\ proc[p].body.numSamples = 4

\* C14: when one of the two credentials is missing the process never
\* listens: it is still loading or has exited with status 1, no request on
\* /mcp or /health has been accepted, no transport or session exists and no
\* provider call has been issued.  The process listens only with both.
C14_FailFast ==
    /\ server = "listening" => ~CredentialsMissing(env)
    /\ CredentialsMissing(env)
       => /\ server \in {"boot", "exited"}
          /\ \A r \in ReqIds : req[r] = IdleReq /\ transports[r] = NoTransport
          /\ sessions = << >>
          /\ \A p \in Procs : proc[p] = IdleProc /\ CallsIssued(hist[p]) = 0
          /\ \A j \in JobIds : jobs[j] = NoJobEntry

\* The process has exited because the secret key alone is missing.
C14_Witness ==
    /\ server = "exited"
    /\ env.apiKey /\ ~env.secretKey

\* C15: no step removes an entry of the session table or binds its id to
\* another transport; a step that changes the table inserts exactly one id
\* that was not in it.
C15_BindingsPermanent ==
    [][ /\ \A id \in DOMAIN sessions :
              id \in DOMAIN sessions' /\ sessions'[id] = sessions[id]
        /\ sessions' # sessions
           => \E id \in DOMAIN sessions' :
                  /\ id \notin DOMAIN sessions
                  /\ DOMAIN sessions' = DOMAIN sessions \cup {id} ]_vars

\* Two sessions are registered and a later request on the first is over.
C15_Witness ==
    \E r \in ReqIds :
        /\ req[r].pc = "done"
        /\ req[r].header \in DOMAIN sessions
        /\ req[r].transport # r
        /\ Cardinality(DOMAIN sessions) >= 2

\* C16: the step in which waitForJob raises the timeout error leaves the
\* provider's jobs as they are, issues no provider call and ends the
\* invocation with that error; from then on the invocation does nothing: the
\* polls it had made are all it made, it fetches no asset, and the job goes
\* on at the provider.
C16_TimeoutOnlyAbandons ==
    [][ \A p \in Procs :
            /\ (hist[p].waitEnd # "timeout" /\ hist'[p].waitEnd = "timeout")
               => /\ jobs' = jobs
                  /\ CallsIssued(hist'[p]) = CallsIssued(hist[p])
                  /\ hist'[p].fetches = 0
                  /\ hist'[p].pollsDone = hist'[p].polls
                  /\ proc'[p].pc = "done"
                  /\ proc'[p].outcome = Threw(TimeoutError(proc'[p].maxWaitMs))
            /\ hist[p].waitEnd = "timeout"
               => /\ proc'[p] = proc[p]
                  /\ hist'[p] = hist[p] ]_vars

\* A tool has timed out after several polls and its job is still running at
\* the provider.
C16_Witness ==
    \E p \in Procs :
        /\ proc[p].kind \in Tools /\ TimedOut(p)
        /\ hist[p].polls >= 2
        /\ jobs[proc[p].jobId].status = "running"

Range(f) == {f[i] : i \in DOMAIN f}
Submitted(p) == proc[p].kind \in Tools /\ hist[p].submitOk

\* C17: of two tool calls in flight together, under every interleaving of
\* their steps: each got a job of its own from its submission; each polls
\* that job only; each counts its deadline from the moment its own
\* submission returned (a poll starts less than maxWaitMs after it, a
\* timeout is raised maxWaitMs or more after it); each fetches output ids of
\* its own terminal job only, and what it returns is made of that job's ids;
\* and a step of one call changes nothing of the other.
C17_Isolated ==
    /\ [](\A p \in Procs :
            Submitted(p)
            => /\ hist[p].ownJob # "none"
               /\ proc[p].jobId = hist[p].ownJob
               /\ \A q \in Procs \ {p} :
                      Submitted(q) => hist[q].ownJob # hist[p].ownJob
               /\ hist[p].polled \subseteq {hist[p].ownJob}
               /\ proc[p].startTime = hist[p].waitStart
               /\ proc[p].pc = "poll"
                  => proc[p].callStart - hist[p].waitStart < proc[p].maxWaitMs
               /\ hist[p].waitEnd = "timeout"
                  => hist[p].endTime - hist[p].waitStart >= proc[p].maxWaitMs
               /\ hist[p].fetches > 0
                  => /\ hist[p].job = JobPayload(hist[p].ownJob)
                     /\ hist[p].fetched
                            \subseteq Range(jobs[hist[p].ownJob].assetIds)
               /\ ReturnedOk(p)
                  => IdsOf(proc[p].outcome.assets)
                        = IF Lists(p) THEN jobs[hist[p].ownJob].assetIds
                          ELSE <<jobs[hist[p].ownJob].assetIds[1]>>)
    /\ [][ \A p \in Procs : \A q \in Procs \ {p} :
              (proc'[p] # proc[p] \/ hist'[p] # hist[p])
              => (proc'[q] = proc[q] /\ hist'[q] = hist[q]) ]_vars

\* One call fetches an asset of its job while the other, started at another
\* time, waits between two polls of its own job.
C17_Witness ==
    \E p \in Procs, q \in Procs :
        /\ proc[p].pc = "asset" /\ proc[q].pc = "sleep"
        /\ proc[p].jobId # proc[q].jobId
        /\ proc[p].startTime # proc[q].startTime
        /\ hist[q].polls >= 2

\* When the last poll of the call was answered: one polling interval before
\* its last timer was due.
LastAnswerAt(p) == hist[p].endTime - hist[p].lastLate - PollIntervalMs

\* C18: the deadline is tested where a poll is about to start and nowhere
\* else.  A pending poll was started before the deadline; the status it reads
\* decides, however late the answer: `success` returns the job and `failed`
\* raises the job-failed error, also after the deadline.  The timeout is
\* raised only where a poll would start (on entry or when a timer fires), at
\* or after the deadline, with no poll pending; a job that turned `success`
\* after the last poll was answered, during the last wait and before the
\* deadline, is reported as timed out without having been polled again.
C18_DeadlineOnlyAtLoopHead ==
    \A p \in Procs :
        hist[p].calls >= 1
        => /\ proc[p].pc = "poll"
              => proc[p].callStart - proc[p].startTime < proc[p].maxWaitMs
           /\ hist[p].lastRead = "success"
              => /\ hist[p].waitEnd = "success"
                 /\ hist[p].job.status = "success"
                 /\ ~(proc[p].pc \in {"poll", "sleep"})
           /\ hist[p].lastRead = "failed"
              => Done(p) /\ hist[p].waitEnd = "job_failed"
           /\ hist[p].waitEnd = "timeout"
              => /\ hist[p].polls = hist[p].pollsDone
                 /\ hist[p].lastRead \in {"none", "pending", "running"}
                 /\ Elapsed(p) >= proc[p].maxWaitMs
           /\ ( /\ Done(p) /\ hist[p].polls > 0
                /\ hist[p].lastRead \in {"pending", "running"}
                /\ jobs[proc[p].jobId].status = "success"
                /\ jobs[proc[p].jobId].termAt > LastAnswerAt(p)
                /\ jobs[proc[p].jobId].termAt - proc[p].startTime
                       < proc[p].maxWaitMs )
              => /\ hist[p].waitEnd = "timeout"
                 /\ hist[p].polls = hist[p].pollsDone

\* A poll started before the deadline is answered `success` after it: the
\* job is returned.
C18_Witness ==
    \E p \in Procs :
        /\ Done(p) /\ proc[p].kind = "waitForJob"
        /\ proc[p].maxWaitMs > 0
        /\ hist[p].waitEnd = "success"
        /\ Elapsed(p) > proc[p].maxWaitMs

\* The job turned `success` during the last wait, before the deadline: the
\* call timed out.
C18_WitnessFinalWait ==
    \E p \in Procs :
        /\ TimedOut(p) /\ proc[p].kind = "waitForJob"
        /\ hist[p].polls > 0
        /\ jobs[proc[p].jobId].status = "success"
        /\ jobs[proc[p].jobId].termAt > LastAnswerAt(p)
        /\ jobs[proc[p].jobId].termAt - proc[p].startTime < proc[p].maxWaitMs

\* The most polls a call with deadline d can start: d / 2000 rounded up, and
\* none when d is not positive.
PollBound(d) == IF d <= 0 THEN 0 ELSE (d + 1999) \div 2000

\* C19: a call of waitForJob that is waiting (for a poll or for the timer)
\* ends; it ends in exactly one way, having returned the job, or with the
\* job-failed error, the error of a provider call, or the timeout error; it
\* never has started more than PollBound(maxWaitMs) polls, and with a
\* deadline that is not positive it times out at once without a poll.
C19_Terminates ==
    /\ [](\A p \in Procs :
            hist[p].calls >= 1
            => /\ hist[p].polls <= PollBound(proc[p].maxWaitMs)
               /\ proc[p].maxWaitMs <= 0
                  => /\ TimedOut(p) /\ hist[p].polls = 0
                     /\ hist[p].endTime = proc[p].startTime
               /\ (Done(p) /\ proc[p].kind = "waitForJob")
                  => /\ hist[p].waitEnd
                            \in {"success", "job_failed", "api", "fetch", "timeout"}
                     /\ proc[p].outcome.kind \in {"returned", "threw"}
                     /\ (proc[p].outcome.kind = "returned")
                            <=> (hist[p].waitEnd = "success")
                     /\ proc[p].outcome.kind = "threw"
                            => proc[p].outcome.error.type = hist[p].waitEnd)
    /\ \A p \in Procs : (proc[p].pc \in {"poll", "sleep"}) ~> Done(p)

\* A call with deadline 3000 timed out after the two polls it may start.
C19_Witness ==
    \E p \in Procs :
        /\ TimedOut(p) /\ proc[p].kind = "waitForJob"
        /\ proc[p].maxWaitMs = 3000
        /\ hist[p].polls = 2 /\ hist[p].pollsDone = 2

Created(t) == transports[t].state # "none"
Initialized(t) == SidOf(t) # "none"

\* C20: the session table holds exactly the transports whose initialization
\* callback has fired, each under the id it generated and under no other id.
\* A transport that was created and never initialized is in the table under
\* no id, it serves no request but the one that created it, and every other
\* request that came without a registered id has created a transport of its
\* own.
C20_TableIsInitialized ==
    /\ \A id \in DOMAIN sessions :
           /\ sessions[id] \in ReqIds
           /\ Created(sessions[id])
           /\ SidOf(sessions[id]) = id
    /\ \A t \in ReqIds :
           Initialized(t)
           => /\ Created(t)
              /\ SidOf(t) \in DOMAIN sessions
              /\ sessions[SidOf(t)] = t
    /\ \A t \in ReqIds :
           (Created(t) /\ ~Initialized(t))
           => /\ \A id \in DOMAIN sessions : sessions[id] # t
              /\ \A r \in ReqIds \ {t} :
                     /\ req[r].transport # t
                     /\ (req[r].pc # "idle" /\ req[r].header \notin DOMAIN sessions)
                        => (req[r].transport = r /\ Created(r))

\* A transport is connected and its request is over without the callback
\* having fired; a later request without an id has got a transport of its
\* own, while the table holds another session.
C20_Witness ==
    \E t \in ReqIds, r \in ReqIds :
        /\ t # r
        /\ transports[t].state = "connected" /\ ~Initialized(t)
        /\ req[t].pc = "done"
        /\ req[r].header = "absent" /\ req[r].transport = r
        /\ transports[r].state = "connected"
        /\ Cardinality(DOMAIN sessions) = 1
====
